---- MODULE Spec2Model ----
(***************************************************************************)
(* DarijaLang runtime (darija_runtime.c / darija_runtime.h): the exception *)
(* handler stack (__darija_push_handler, __darija_pop_handler,             *)
(* __darija_throw), the I/O primitives (tba3, tba3_str, _9rahadi) and the  *)
(* process state they act on.                                              *)
(*                                                                         *)
(* The runtime never calls setjmp: __darija_jmp_buf is an extern array     *)
(* that the calling (generated) code fills.  The caller is modelled as the *)
(* environment: it enters try-regions, captures their context right after  *)
(* the push, leaves them and throws.  A bounded number of its calls may    *)
(* break the calling protocol: a throw before the context of the region    *)
(* just entered is captured, a call other than a pop at the start of a     *)
(* handler, a pop outside every region.                                    *)
(*                                                                         *)
(* Three specifications: Spec, the exception mechanism with one caller;    *)
(* IOSpec, the mechanism at small depth together with the I/O primitives   *)
(* and a text waiting on standard input; ThreadSpec, two threads calling   *)
(* the mechanism, which the runtime does nothing to keep apart.            *)
(***************************************************************************)
EXTENDS Integers, Sequences, FiniteSets, TLC

\* darija_runtime.h:30
MAX_EXCEPTION_HANDLERS == 32

\* the null pointer; heap addresses are 1, 2, ...
NULL == 0

\* a jmp_buf that no setjmp has filled (the array is a zero-initialised global)
NoCtx == 0

\* throws that find a handler (each allocates one message copy)
MaxThrows == 2

\* calls of the environment that break the calling protocol
MaxViolations == 1

\* calls of the I/O primitives
MaxIO == 2

\* nesting depth of the runs that also perform I/O
MaxIODepth == 1

\* try-regions a thread nests, in the runs with two threads
MaxThreadDepth == 1

\* the id arguments the environment passes to __darija_push_handler
Ids == {1, 2}

\* the messages the environment throws
Messages == {"x", "y"}

\* the string literals the caller passes to tba3_str, by address (text is a
\* sequence of characters)
StrTab == << <<"h", "i">>, <<>> >>

\* the threads of the runs in which two threads call the runtime
Threads == {1, 2}

\* the int values the caller passes to tba3
Values == {-12, 0, 42}

\* what arrives on standard input
Inputs == { <<" ", "-", "1", "2", "\n", "a", "b">>, <<"4", "2", "x">>, <<"-", "x">> }

VARIABLES
    __darija_jmp_buf,            \* [0..MAX-1 -> context]: the nesting level of the region whose setjmp filled the slot (ThreadSpec: the thread that filled it), or NoCtx
    __darija_handler_idx,        \* int
    __darija_current_exception,  \* char*: NULL or an address of heap
    heap,                        \* the blocks strdup has allocated, by address
    freed,                       \* the addresses of heap passed to free
    stdin,                       \* the characters waiting on standard input
    stdout,                      \* the characters written to standard output
    ret,                         \* the value the last call of _9rahadi returned
    stderr,                      \* the lines written to standard error
    status,                      \* "running", "exited" (exit was called), "crashed", "lost"
    exit_code,                   \* the argument of exit
    control,                     \* how the last call ended: "start", "return", "handler", "exit", "crash", "lost"
    landed,                      \* control = "handler": the context the jump restored
    nest,                        \* caller: the try-regions entered and not yet left (levels 1..nest)
    captured,                    \* caller: the levels whose region has captured its context since it was entered
    violations,                  \* caller: the protocol breaches so far
    throws,                      \* caller: the throws made at depth > 0
    ios,                         \* caller: I/O calls made
    threads,                     \* two-thread runs: each thread's position, open regions and whether it has called
    last                         \* the last call: its name, its arguments, the depth it found

rt == <<__darija_jmp_buf, __darija_handler_idx, __darija_current_exception,
        heap, stderr, status, exit_code, control, landed>>
\* the exception mechanism's globals
exc == <<__darija_jmp_buf, __darija_handler_idx, __darija_current_exception>>
\* the standard streams the exception mechanism does not use, and the
\* return value
io == <<stdin, stdout, ret>>
vars == <<__darija_jmp_buf, __darija_handler_idx, __darija_current_exception,
          heap, freed, stdin, stdout, ret, stderr, status, exit_code, control,
          landed, nest, captured, violations, throws, ios, threads, last>>

----------------------------------------------------------------------------
(* C library *)

\* exit(code): the process ends; nothing returns
exit(code) ==
    /\ status' = "exited"
    /\ exit_code' = code
    /\ control' = "exit"
    /\ landed' = NoCtx

\* a function returns to its call site
Return ==
    /\ control' = "return"
    /\ landed' = NoCtx
    /\ UNCHANGED <<status, exit_code>>

\* __darija_jmp_buf[i]; reading outside the array is undefined
Slot(i) == IF i \in DOMAIN __darija_jmp_buf THEN __darija_jmp_buf[i] ELSE NoCtx

\* longjmp(env, 1): control resumes where setjmp filled env, also when the
\* region that filled it has been left since (a stale context).  On a buffer no
\* setjmp has filled the behaviour is undefined: the process crashes, or
\* control is lost (the process runs on from an arbitrary address).
longjmp(env) ==
    IF env # NoCtx
    THEN /\ control' = "handler"
         /\ landed' = env
         /\ UNCHANGED <<status, exit_code>>
    ELSE \/ /\ status' = "crashed"
            /\ control' = "crash"
            /\ landed' = NoCtx
            /\ UNCHANGED exit_code
         \/ /\ status' = "lost"
            /\ control' = "lost"
            /\ landed' = NoCtx
            /\ UNCHANGED exit_code

----------------------------------------------------------------------------
(* darija_runtime.c *)

\* __darija_push_handler with the capacity test off by one
Mut_push_handler_le(id) ==
    /\ IF __darija_handler_idx <= MAX_EXCEPTION_HANDLERS
       THEN /\ __darija_handler_idx' = __darija_handler_idx + 1
            /\ Return
            /\ UNCHANGED stderr
       ELSE /\ stderr' = Append(stderr, "Error: Too many nested try blocks")
            /\ exit(1)
            /\ UNCHANGED __darija_handler_idx
    /\ UNCHANGED <<__darija_jmp_buf, __darija_current_exception, heap, freed>>

\* __darija_push_handler that counts the overflowing push before it exits
Mut_push_handler_counts(id) ==
    /\ __darija_handler_idx' = __darija_handler_idx + 1
    /\ IF __darija_handler_idx < MAX_EXCEPTION_HANDLERS
       THEN /\ Return
            /\ UNCHANGED stderr
       ELSE /\ stderr' = Append(stderr, "Error: Too many nested try blocks")
            /\ exit(1)
    /\ UNCHANGED <<__darija_jmp_buf, __darija_current_exception, heap, freed>>

\* __darija_push_handler that advances the index by its argument
Mut_push_handler_id(id) ==
    /\ IF __darija_handler_idx < MAX_EXCEPTION_HANDLERS
       THEN /\ __darija_handler_idx' = __darija_handler_idx + id
            /\ Return
            /\ UNCHANGED stderr
       ELSE /\ stderr' = Append(stderr, "Error: Too many nested try blocks")
            /\ exit(1)
            /\ UNCHANGED __darija_handler_idx
    /\ UNCHANGED <<__darija_jmp_buf, __darija_current_exception, heap, freed>>

\* __darija_push_handler that resets the slot it hands out
Mut_push_handler_clears(id) ==
    /\ IF __darija_handler_idx < MAX_EXCEPTION_HANDLERS
       THEN /\ __darija_handler_idx' = __darija_handler_idx + 1
            /\ __darija_jmp_buf' = [__darija_jmp_buf EXCEPT ![__darija_handler_idx] = NoCtx]
            /\ Return
            /\ UNCHANGED stderr
       ELSE /\ stderr' = Append(stderr, "Error: Too many nested try blocks")
            /\ exit(1)
            /\ UNCHANGED <<__darija_handler_idx, __darija_jmp_buf>>
    /\ UNCHANGED <<__darija_current_exception, heap, freed>>

\* __darija_push_handler without the capacity test
Mut_push_handler_unbounded(id) ==
    /\ __darija_handler_idx' = __darija_handler_idx + 1
    /\ Return
    /\ UNCHANGED <<__darija_jmp_buf, __darija_current_exception, heap, freed, stderr>>

\* void __darija_push_handler(int id)
__darija_push_handler(id) ==
    /\ IF __darija_handler_idx < MAX_EXCEPTION_HANDLERS
       THEN /\ __darija_handler_idx' = __darija_handler_idx + 1
            /\ Return
            /\ UNCHANGED stderr
       ELSE /\ stderr' = Append(stderr, "Error: Too many nested try blocks")
            /\ exit(1)
            /\ UNCHANGED __darija_handler_idx
    /\ UNCHANGED <<__darija_jmp_buf, __darija_current_exception, heap, freed>>

\* __darija_pop_handler without the test for an empty stack
Mut_pop_handler_unguarded ==
    /\ __darija_handler_idx' = __darija_handler_idx - 1
    /\ Return
    /\ UNCHANGED <<__darija_jmp_buf, __darija_current_exception, heap, freed, stderr>>

\* __darija_pop_handler that empties the stack
Mut_pop_handler_resets ==
    /\ __darija_handler_idx' = 0
    /\ Return
    /\ UNCHANGED <<__darija_jmp_buf, __darija_current_exception, heap, freed, stderr>>

\* __darija_pop_handler that clears the pending exception
Mut_pop_handler_clears ==
    /\ IF __darija_handler_idx > 0
       THEN __darija_handler_idx' = __darija_handler_idx - 1
       ELSE UNCHANGED __darija_handler_idx
    /\ __darija_current_exception' = NULL
    /\ Return
    /\ UNCHANGED <<__darija_jmp_buf, heap, freed, stderr>>

\* __darija_pop_handler that leaves the stack as it is
Mut_pop_handler_noop ==
    /\ Return
    /\ UNCHANGED <<__darija_jmp_buf, __darija_handler_idx, __darija_current_exception,
                   heap, freed, stderr>>

\* __darija_pop_handler for which a pop on the empty stack is fatal
Mut_pop_handler_fatal ==
    /\ IF __darija_handler_idx > 0
       THEN /\ __darija_handler_idx' = __darija_handler_idx - 1
            /\ Return
            /\ UNCHANGED stderr
       ELSE /\ stderr' = Append(stderr, "Error: no try block to leave")
            /\ exit(1)
            /\ UNCHANGED __darija_handler_idx
    /\ UNCHANGED <<__darija_jmp_buf, __darija_current_exception, heap, freed>>

\* void __darija_pop_handler()
__darija_pop_handler ==
    /\ IF __darija_handler_idx > 0
       THEN __darija_handler_idx' = __darija_handler_idx - 1
       ELSE UNCHANGED __darija_handler_idx
    /\ Return
    /\ UNCHANGED <<__darija_jmp_buf, __darija_current_exception, heap, freed, stderr>>

\* the index __darija_throw uses into __darija_jmp_buf
throw_index == __darija_handler_idx - 1

\* the throw that finds a handler, releasing the message it replaces
Mut_throw_caught_frees(message) ==
    /\ freed' = IF __darija_current_exception # NULL
                THEN freed \cup {__darija_current_exception}
                ELSE freed
    /\ heap' = Append(heap, message)
    /\ __darija_current_exception' = Len(heap) + 1
    /\ longjmp(Slot(__darija_handler_idx - 1))
    /\ UNCHANGED <<__darija_jmp_buf, __darija_handler_idx, stderr>>

\* the throw that finds a handler, jumping through the slot above the top
Mut_throw_caught_above(message) ==
    /\ heap' = Append(heap, message)
    /\ __darija_current_exception' = Len(heap) + 1
    /\ longjmp(Slot(__darija_handler_idx))
    /\ UNCHANGED <<__darija_jmp_buf, __darija_handler_idx, stderr, freed>>

\* the throw that finds a handler, jumping to the outermost one
Mut_throw_caught_outermost(message) ==
    /\ heap' = Append(heap, message)
    /\ __darija_current_exception' = Len(heap) + 1
    /\ longjmp(Slot(0))
    /\ UNCHANGED <<__darija_jmp_buf, __darija_handler_idx, stderr, freed>>

\* the throw that finds a handler, popping it before the jump
Mut_throw_caught_pops(message) ==
    /\ heap' = Append(heap, message)
    /\ __darija_current_exception' = Len(heap) + 1
    /\ __darija_handler_idx' = __darija_handler_idx - 1
    /\ longjmp(Slot(__darija_handler_idx - 1))
    /\ UNCHANGED <<__darija_jmp_buf, stderr, freed>>

\* the throw that finds a handler, keeping the first message while one is pending
Mut_throw_caught_keeps(message) ==
    /\ IF __darija_current_exception = NULL
       THEN /\ heap' = Append(heap, message)
            /\ __darija_current_exception' = Len(heap) + 1
       ELSE UNCHANGED <<heap, __darija_current_exception>>
    /\ longjmp(Slot(__darija_handler_idx - 1))
    /\ UNCHANGED <<__darija_jmp_buf, __darija_handler_idx, stderr, freed>>

\* __darija_throw, __darija_handler_idx > 0: strdup never fails here
throw_caught(message) ==
    /\ heap' = Append(heap, message)
    /\ __darija_current_exception' = Len(heap) + 1
    /\ longjmp(Slot(throw_index))
    /\ UNCHANGED <<__darija_jmp_buf, __darija_handler_idx, stderr, freed>>

\* the uncaught throw ending the process with status 0
Mut_throw_uncaught_exit0(message) ==
    /\ stderr' = Append(stderr, "Uncaught exception: " \o message)
    /\ exit(0)
    /\ UNCHANGED <<__darija_jmp_buf, __darija_handler_idx,
                   __darija_current_exception, heap, freed>>

\* the uncaught throw storing its message before it ends the process
Mut_throw_uncaught_stores(message) ==
    /\ heap' = Append(heap, message)
    /\ __darija_current_exception' = Len(heap) + 1
    /\ stderr' = Append(stderr, "Uncaught exception: " \o message)
    /\ exit(1)
    /\ UNCHANGED <<__darija_jmp_buf, __darija_handler_idx, freed>>

\* __darija_throw, no handler
throw_uncaught(message) ==
    /\ stderr' = Append(stderr, "Uncaught exception: " \o message)
    /\ exit(1)
    /\ UNCHANGED <<__darija_jmp_buf, __darija_handler_idx,
                   __darija_current_exception, heap, freed>>

\* void __darija_throw(const char* message)
__darija_throw(message) ==
    IF __darija_handler_idx > 0
    THEN throw_caught(message)
    ELSE throw_uncaught(message)

\* the decimal digits, '0' first
DigitChar == <<"0", "1", "2", "3", "4", "5", "6", "7", "8", "9">>

DigitSet == {DigitChar[i] : i \in DOMAIN DigitChar}

DigitVal(c) == (CHOOSE i \in DOMAIN DigitChar : DigitChar[i] = c) - 1

\* the digits of n >= 0, most significant first
RECURSIVE Digits(_)
Digits(n) ==
    IF n < 10 THEN <<DigitChar[n + 1]>>
    ELSE Append(Digits(n \div 10), DigitChar[(n % 10) + 1])

\* the conversion "%d" of printf
FormatDec(v) == IF v < 0 THEN <<"-">> \o Digits(-v) ELSE Digits(v)

\* white space, as scanf skips it before "%d"
RECURSIVE SkipSpace(_)
SkipSpace(s) ==
    IF s # <<>> /\ Head(s) \in {" ", "\n", "\t"} THEN SkipSpace(Tail(s)) ELSE s

\* the longest run of digits at the head of s, read into acc
RECURSIVE ReadDigits(_, _)
ReadDigits(s, acc) ==
    IF s # <<>> /\ Head(s) \in DigitSet
    THEN ReadDigits(Tail(s), acc * 10 + DigitVal(Head(s)))
    ELSE [value |-> acc, rest |-> s]

\* scanf("%d", &value) on input s: n is its return value (1: converted, 0: no
\* integer at the head of the input, -1: EOF), rest is the input left unread
scanf_d(s) ==
    LET t == SkipSpace(s)
        signed == t # <<>> /\ Head(t) \in {"+", "-"}
        u == IF signed THEN Tail(t) ELSE t
        d == ReadDigits(u, 0)
    IN  IF t = <<>> THEN [n |-> -1, value |-> 0, rest |-> t]
        ELSE IF u = <<>> THEN [n |-> -1, value |-> 0, rest |-> u]
        ELSE IF Head(u) \notin DigitSet THEN [n |-> 0, value |-> 0, rest |-> u]
        ELSE [n |-> 1,
              value |-> IF Head(t) = "-" THEN -d.value ELSE d.value,
              rest |-> d.rest]

\* void tba3(int value)
tba3(value) ==
    /\ stdout' = stdout \o FormatDec(value) \o <<"\n">>
    /\ Return
    /\ UNCHANGED <<exc, heap, freed, stderr, stdin, ret>>

\* tba3_str printing an empty line for the null pointer
Mut_tba3_str_empty(s) ==
    /\ IF s = NULL
       THEN stdout' = stdout \o <<"\n">>
       ELSE stdout' = stdout \o StrTab[s] \o <<"\n">>
    /\ Return
    /\ UNCHANGED <<exc, heap, freed, stderr, stdin, ret>>

\* void tba3_str(const char* s)
tba3_str(s) ==
    /\ IF s = NULL
       THEN stdout' = stdout \o <<"n", "u", "l", "l">> \o <<"\n">>
       ELSE stdout' = stdout \o StrTab[s] \o <<"\n">>
    /\ Return
    /\ UNCHANGED <<exc, heap, freed, stderr, stdin, ret>>

\* _9rahadi ending the process when no integer can be read
Mut_9rahadi_exits ==
    LET r == scanf_d(stdin)
    IN  /\ stdin' = r.rest
        /\ IF r.n # 1
           THEN /\ stderr' = Append(stderr, "Error: failed to read integer input")
                /\ exit(1)
                /\ UNCHANGED ret
           ELSE /\ ret' = r.value
                /\ Return
                /\ UNCHANGED stderr
        /\ UNCHANGED <<exc, heap, freed, stdout>>

\* int _9rahadi()
_9rahadi ==
    LET r == scanf_d(stdin)
    IN  /\ stdin' = r.rest
        /\ IF r.n # 1
           THEN /\ stderr' = Append(stderr, "Error: failed to read integer input")
                /\ ret' = 0
           ELSE /\ ret' = r.value
                /\ UNCHANGED stderr
        /\ Return
        /\ UNCHANGED <<exc, heap, freed, stdout>>

----------------------------------------------------------------------------
(* The calling code *)

\* where the caller stands: just inside a region whose context is not yet
\* captured, at the start of a catch handler, or in ordinary code
Pc ==
    IF control = "handler" THEN "handler"
    ELSE IF control = "return" /\ last.op = "push" THEN "entered"
    ELSE "body"

\* the breach of the calling protocol that call op commits, if any
Breach(op) ==
    IF Pc = "entered" /\ op # "setjmp" THEN <<"nocapture">>
    ELSE IF Pc = "handler" /\ op # "pop" THEN <<"nopop">>
    ELSE IF op = "pop" /\ nest = 0 THEN <<"unbalanced">>
    ELSE <<>>

\* a call into the runtime: between a push and the capture of the region's
\* context the caller makes no call but a throw
Call(op, id, msg) ==
    /\ status = "running"
    /\ Pc = "entered" => op \in {"setjmp", "throw"}
    /\ Len(violations) + Len(Breach(op)) <= MaxViolations
    /\ violations' = violations \o Breach(op)
    /\ last' = [op |-> op, id |-> id, msg |-> msg, depth |-> __darija_handler_idx]
    /\ UNCHANGED <<io, ios, threads>>

\* the caller enters a try-region
EnterTry(id) ==
    /\ Call("push", id, "")
    /\ __darija_push_handler(id)
    /\ nest' = IF control' = "return" THEN nest + 1 ELSE nest
    /\ UNCHANGED <<captured, throws>>

\* the caller captures the context of the region it has just entered:
\* setjmp(__darija_jmp_buf[__darija_handler_idx - 1]) returning 0
SetJmp ==
    /\ Pc = "entered"
    /\ Call("setjmp", 0, "")
    /\ __darija_jmp_buf' =
           IF __darija_handler_idx - 1 \in DOMAIN __darija_jmp_buf
           THEN [__darija_jmp_buf EXCEPT ![__darija_handler_idx - 1] = nest]
           ELSE __darija_jmp_buf
    /\ Return
    /\ captured' = captured \cup {nest}
    /\ UNCHANGED <<__darija_handler_idx, __darija_current_exception, heap, freed, stderr>>
    /\ UNCHANGED <<nest, throws>>

\* the caller leaves a try-region, at the end of its body or at the start of
\* its catch handler
ExitTry ==
    /\ Call("pop", 0, "")
    /\ __darija_pop_handler
    /\ nest' = IF nest > 0 THEN nest - 1 ELSE nest
    /\ captured' = captured \ {nest}
    /\ UNCHANGED throws

\* the caller throws; a handler that receives control has left every region
\* nested in its own
Throw(message) ==
    /\ __darija_handler_idx > 0 => Len(heap) < MaxThrows
    /\ Call("throw", 0, message)
    /\ __darija_throw(message)
    /\ IF control' = "handler" /\ landed' \in captured
       THEN /\ nest' = landed'
            /\ captured' = captured \cap (1..landed')
       ELSE UNCHANGED <<nest, captured>>
    /\ throws' = IF __darija_handler_idx > 0 THEN throws + 1 ELSE throws

\* the process at its start, whatever waits on standard input
Start ==
    /\ __darija_jmp_buf = [i \in 0..(MAX_EXCEPTION_HANDLERS - 1) |-> NoCtx]
    /\ __darija_handler_idx = 0
    /\ __darija_current_exception = NULL
    /\ heap = <<>>
    /\ freed = {}
    /\ stdout = <<>>
    /\ ret = 0
    /\ stderr = <<>>
    /\ status = "running"
    /\ exit_code = 0
    /\ control = "start"
    /\ landed = NoCtx
    /\ nest = 0
    /\ captured = {}
    /\ violations = <<>>
    /\ throws = 0
    /\ ios = 0
    /\ threads = [t \in Threads |-> [pc |-> "body", nest |-> 0, called |-> FALSE]]
    /\ last = [op |-> "none", id |-> 0, msg |-> "", depth |-> 0]

\* standard input is empty
Init ==
    /\ Start
    /\ stdin = <<>>

Next ==
    \/ \E id \in Ids : EnterTry(id)
    \/ SetJmp
    \/ ExitTry
    \/ \E message \in Messages : Throw(message)

Spec == Init /\ [][Next]_vars

\* a call of an I/O primitive, made from ordinary code
IOCall(op, arg) ==
    /\ status = "running"
    /\ Pc = "body"
    /\ ios < MaxIO
    /\ ios' = ios + 1
    /\ last' = [op |-> op, id |-> arg, msg |-> "", depth |-> __darija_handler_idx]
    /\ UNCHANGED <<nest, captured, violations, throws, threads>>

\* the caller prints an integer
PrintInt(value) ==
    /\ IOCall("tba3", value)
    /\ tba3(value)

\* the caller prints a string literal, or the null pointer
PrintStr(s) ==
    /\ IOCall("tba3_str", s)
    /\ tba3_str(s)

\* the caller reads an integer
ReadInt ==
    /\ IOCall("_9rahadi", 0)
    /\ _9rahadi

\* the caller reads the pending exception
ReadPending ==
    /\ IOCall("read", __darija_current_exception)
    /\ Return
    /\ UNCHANGED <<exc, heap, freed, stderr, io>>

\* a text, or nothing, waits on standard input
IOInit ==
    /\ Start
    /\ stdin \in Inputs \cup {<<>>}

\* the exception mechanism at small depth under the calling protocol, with I/O
IONext ==
    \/ /\ Next
       /\ __darija_handler_idx' <= MaxIODepth
       /\ violations' = <<>>
    \/ \E value \in Values : PrintInt(value)
    \/ \E s \in 0..Len(StrTab) : PrintStr(s)
    \/ ReadInt
    \/ ReadPending

IOSpec == IOInit /\ [][IONext]_vars

\* a call into the runtime by thread t, which keeps the calling protocol as
\* far as its own calls go; the calls of the two threads interleave
TCall(t, op, msg) ==
    /\ status = "running"
    /\ last' = [op |-> op, id |-> t, msg |-> msg, depth |-> __darija_handler_idx]
    /\ UNCHANGED <<io, ios, nest, captured, violations>>

\* thread t at position pc with n regions open
At(t, pc, n) == [threads EXCEPT ![t] = [pc |-> pc, nest |-> n, called |-> TRUE]]

\* thread t enters a try-region
TEnterTry(t) ==
    /\ threads[t].pc = "body"
    /\ threads[t].nest < MaxThreadDepth
    /\ TCall(t, "push", "")
    /\ __darija_push_handler(t)
    /\ threads' = At(t, "entered", threads[t].nest + 1)
    /\ UNCHANGED throws

\* thread t captures its context in the slot below the shared index
TSetJmp(t) ==
    /\ threads[t].pc = "entered"
    /\ TCall(t, "setjmp", "")
    /\ __darija_jmp_buf' =
           IF __darija_handler_idx - 1 \in DOMAIN __darija_jmp_buf
           THEN [__darija_jmp_buf EXCEPT ![__darija_handler_idx - 1] = t]
           ELSE __darija_jmp_buf
    /\ Return
    /\ threads' = At(t, "body", threads[t].nest)
    /\ UNCHANGED <<__darija_handler_idx, __darija_current_exception, heap, freed,
                   stderr, throws>>

\* thread t leaves a try-region, at the end of its body or at the start of
\* its catch handler
TExitTry(t) ==
    /\ threads[t].pc \in {"body", "handler"}
    /\ threads[t].nest > 0
    /\ TCall(t, "pop", "")
    /\ __darija_pop_handler
    /\ threads' = At(t, "body", threads[t].nest - 1)
    /\ UNCHANGED throws

\* thread t throws from ordinary code.  When the jump lands on a context of
\* the other thread, t runs on in a frame that is not its own ("astray") and
\* is followed no further
TThrow(t, message) ==
    /\ threads[t].pc = "body"
    /\ __darija_handler_idx > 0 => Len(heap) < MaxThrows
    /\ TCall(t, "throw", message)
    /\ __darija_throw(message)
    /\ threads' = At(t, IF control' # "handler" THEN "ended"
                       ELSE IF landed' = t THEN "handler" ELSE "astray",
                    threads[t].nest)
    /\ throws' = IF __darija_handler_idx > 0 THEN throws + 1 ELSE throws

ThreadNext ==
    \E t \in Threads :
        \/ TEnterTry(t)
        \/ TSetJmp(t)
        \/ TExitTry(t)
        \/ \E message \in Messages : TThrow(t, message)

\* two threads share the handler stack and the pending exception
ThreadSpec == Init /\ [][ThreadNext]_vars

----------------------------------------------------------------------------
(* Properties *)

\* the last line written to standard error
LastErr == IF stderr = <<>> THEN "" ELSE stderr[Len(stderr)]

\* the call just made was op
Did(op) == last.op = op

\* C1: a throw made at depth 0 is uncaught: it writes "Uncaught exception: "
\* followed by the message to standard error and ends the process with a
\* non-zero exit status; control reaches no handler and does not return.
C1_UncaughtThrowExits ==
    (Did("throw") /\ last.depth = 0) =>
        /\ status = "exited"
        /\ exit_code # 0
        /\ control = "exit"
        /\ landed = NoCtx
        /\ LastErr = "Uncaught exception: " \o last.msg

C1_Witness ==
    /\ Did("throw") /\ last.depth = 0 /\ last.msg = "y"
    /\ status = "exited"
    /\ stderr = <<"Uncaught exception: y">>

\* C2: a throw made at depth > 0 does not return to its call site: control
\* resumes at the context stored at index depth - 1, and when the innermost
\* region entered and not yet left has captured its context that is this
\* region's handler (innermost first), at every depth from 1 to the capacity.
C2_ThrowLandsInnermost ==
    [][(last'.op = "throw" /\ __darija_handler_idx > 0) =>
            /\ __darija_jmp_buf[__darija_handler_idx - 1] # NoCtx =>
                   /\ control' = "handler"
                   /\ status' = "running"
                   /\ landed' = __darija_jmp_buf[__darija_handler_idx - 1]
            /\ nest \in captured =>
                   /\ control' = "handler"
                   /\ landed' = nest
            /\ control' # "return"]_vars

C2_Witness ==
    /\ Did("throw") /\ last.depth = MAX_EXCEPTION_HANDLERS
    /\ control = "handler"
    /\ landed = MAX_EXCEPTION_HANDLERS
    /\ violations = <<>>

\* C3: a push made when depth equals the capacity is fatal: it writes the
\* "Too many nested try blocks" line to standard error and ends the process
\* with exit status 1, without incrementing depth and without returning.
C3_OverflowIsFatal ==
    (Did("push") /\ last.depth = MAX_EXCEPTION_HANDLERS) =>
        /\ status = "exited"
        /\ exit_code = 1
        /\ control = "exit"
        /\ __darija_handler_idx = MAX_EXCEPTION_HANDLERS
        /\ LastErr = "Error: Too many nested try blocks"

C3_Witness ==
    /\ Did("push") /\ last.depth = MAX_EXCEPTION_HANDLERS
    /\ status = "exited"
    /\ stderr = <<"Error: Too many nested try blocks">>

\* C4: a push made when depth is below the capacity increases depth by
\* exactly 1 and returns; nothing else of the runtime state changes, so the
\* result is the same whatever id was passed.
C4_PushIncrements ==
    [][(last'.op = "push" /\ __darija_handler_idx < MAX_EXCEPTION_HANDLERS) =>
            /\ __darija_handler_idx' = __darija_handler_idx + 1
            /\ control' = "return"
            /\ status' = "running"
            /\ UNCHANGED <<__darija_jmp_buf, __darija_current_exception,
                           heap, stderr, exit_code>>]_vars

C4_Witness ==
    /\ Did("push") /\ last.id = 2
    /\ last.depth = 1
    /\ __darija_handler_idx = 2
    /\ control = "return"

\* C5: a pop decreases depth by exactly 1 when depth > 0 and changes nothing
\* when depth is 0; in both cases it returns and the process keeps running.
C5_PopDecrementsOrNoop ==
    [][last'.op = "pop" =>
            /\ __darija_handler_idx' =
                   IF __darija_handler_idx > 0 THEN __darija_handler_idx - 1 ELSE 0
            /\ control' = "return"
            /\ status' = "running"
            /\ UNCHANGED <<__darija_jmp_buf, __darija_current_exception,
                           heap, stderr, exit_code>>]_vars

C5_Witness ==
    /\ Did("pop") /\ last.depth = 0
    /\ __darija_handler_idx = 0
    /\ status = "running"
    /\ control = "return"

\* C6: a throw made at depth > 0 stores a fresh copy of its message as the
\* pending exception, replacing the previous one, and leaves depth as it
\* was: a handler that receives control finds its own entry still on the
\* stack, and one pop removes it.
C6_ThrowStoresAndKeepsDepth ==
    /\ (Did("throw") /\ last.depth > 0) =>
            /\ __darija_current_exception = Len(heap)
            /\ __darija_current_exception # NULL
            /\ heap[__darija_current_exception] = last.msg
            /\ __darija_handler_idx = last.depth
    /\ control = "handler" =>
            /\ __darija_handler_idx = landed
            /\ Slot(__darija_handler_idx - 1) = landed

C6_Witness ==
    /\ Did("throw") /\ last.depth = 2 /\ last.msg = "y"
    /\ control = "handler"
    /\ heap = <<"x", "y">>
    /\ __darija_current_exception = 2
    /\ __darija_handler_idx = 2

\* no throw has been made
NoThrowYet == heap = <<>> /\ ~Did("throw")

\* no pop was made outside every region
WellNested == \A i \in DOMAIN violations : violations[i] # "unbalanced"

\* C7: along a well-nested sequence of pushes and pops without a throw, from
\* depth 0 and never nested beyond the capacity, depth equals the number of
\* pushes not yet matched by a pop, so it is 0 once every push is matched.
C7_BalancedDepth ==
    (NoThrowYet /\ WellNested) => __darija_handler_idx = nest

C7_Witness ==
    /\ NoThrowYet /\ WellNested
    /\ Did("pop") /\ last.depth = 1
    /\ nest = 0
    /\ __darija_handler_idx = 0
    /\ __darija_jmp_buf[2] # NoCtx

\* C8: in every reachable state, whatever sequence of pushes, pops and
\* throws led to it, 0 <= depth <= capacity.
C8_DepthInRange ==
    /\ 0 <= __darija_handler_idx
    /\ __darija_handler_idx <= MAX_EXCEPTION_HANDLERS

C8_Witness ==
    /\ __darija_handler_idx = MAX_EXCEPTION_HANDLERS
    /\ Did("push") /\ status = "exited"
    /\ violations # <<>>

\* C9: while the caller keeps to the calling protocol (one push on entering
\* a region, one pop on leaving it normally, one pop at the start of each
\* handler a throw reaches), depth equals the number of regions entered and
\* not yet left, also after caught throws from nested regions.
C9_DepthIsNesting ==
    violations = <<>> => __darija_handler_idx = nest

C9_Witness ==
    /\ violations = <<>>
    /\ Did("pop") /\ last.depth = 3
    /\ Len(heap) = 2
    /\ nest = 2
    /\ __darija_handler_idx = 2

\* C10 as stated: once a push has returned, the slot at index depth - 1
\* holds the context of the region just entered.
C10_PushCaptures ==
    (Did("push") /\ control = "return") =>
        /\ Slot(__darija_handler_idx - 1) = nest
        /\ nest \in captured

\* C10, amended: a push writes no slot of the context array, so the slot at
\* index depth - 1 holds after the push what it held before; it holds the
\* context of the region just entered once the caller has captured it there,
\* and a throw made after that capture, before any further push or pop,
\* lands in that region's handler.
C10_PushLeavesSlots ==
    /\ [][last'.op = "push" => __darija_jmp_buf' = __darija_jmp_buf]_vars
    /\ [][(Did("setjmp") /\ last'.op = "throw") =>
               /\ __darija_jmp_buf[__darija_handler_idx - 1] = nest
               /\ control' = "handler"
               /\ landed' = nest]_vars

C10_Witness ==
    /\ Did("push") /\ control = "return"
    /\ Slot(__darija_handler_idx - 1) = nest
    /\ nest \notin captured

----------------------------------------------------------------------------
(* The I/O primitives *)

\* the text s, after leading white space, starts with the decimal integer n
\* (an optional sign and digits, up to the first character that is no digit)
ParsesAs(s, n) ==
    LET t == SkipSpace(s)
    IN  \E k \in 1..Len(t) :
            /\ SubSeq(t, 1, k) \in {FormatDec(n), <<"+">> \o FormatDec(n)}
            /\ k < Len(t) => t[k + 1] \notin DigitSet

\* the text s, after leading white space, starts with a decimal integer
Parses(s) ==
    LET t == SkipSpace(s)
    IN  /\ t # <<>>
        /\ \/ Head(t) \in DigitSet
           \/ Head(t) \in {"+", "-"} /\ Len(t) > 1 /\ t[2] \in DigitSet

\* C11: _9rahadi on input that does not start with a decimal integer writes
\* "Error: failed to read integer input" to standard error, returns 0 and
\* returns to its caller: the process keeps running, the handler depth and
\* the pending exception are unchanged; on input that starts with the
\* integer n it returns n and writes no diagnostic.
C11_ReadInteger ==
    [][Did("_9rahadi")' =>
        /\ IF Parses(stdin)
           THEN ParsesAs(stdin, ret') /\ stderr' = stderr
           ELSE /\ ret' = 0
                /\ stderr' = Append(stderr, "Error: failed to read integer input")
        /\ status' = "running" /\ control' = "return"
        /\ UNCHANGED <<__darija_handler_idx, __darija_current_exception, heap>>]_vars

\* a read has failed on "ab", after a read of -12, inside a try region and
\* with an exception pending
C11_Witness ==
    /\ Did("_9rahadi") /\ ret = 0 /\ stdin = <<"a", "b">>
    /\ stderr = <<"Error: failed to read integer input">>
    /\ status = "running"
    /\ __darija_handler_idx > 0
    /\ __darija_current_exception # NULL

----------------------------------------------------------------------------
(* Termination *)

\* C13: the exception mechanism ends the process in exactly two situations, a
\* push at full capacity and a throw at depth 0: a step exits the process if
\* and only if it is one of these.  A push below capacity returns, a pop
\* returns in every state, and a throw at depth > 0 whose slot holds a context
\* reaches a handler, all with the process running; as long as the caller
\* keeps the calling protocol the process is never in another state than
\* running or exited.
C13_TwoFatalCases ==
    /\ [][status' = "exited" <=>
             \/ Did("push")' /\ last'.depth = MAX_EXCEPTION_HANDLERS
             \/ Did("throw")' /\ last'.depth = 0]_vars
    /\ [][Did("pop")' => status' = "running" /\ control' = "return"]_vars
    /\ [][Did("push")' /\ last'.depth < MAX_EXCEPTION_HANDLERS =>
             status' = "running" /\ control' = "return"]_vars
    /\ [][Did("throw")' /\ last'.depth > 0 /\ Slot(last'.depth - 1) # NoCtx =>
             status' = "running" /\ control' = "handler"]_vars
    /\ [][violations' = <<>> => status' \in {"running", "exited"}]_vars

\* a throw made at full capacity has reached a handler: unlike a push there,
\* it leaves the process running
C13_Witness ==
    /\ Did("throw") /\ last.depth = MAX_EXCEPTION_HANDLERS
    /\ status = "running" /\ control = "handler"
    /\ violations = <<>>

\* C14: successive throws unwind one region at a time, outward.  In a run
\* that keeps the calling protocol a throw at depth d > 0 reaches the handler
\* of the region at nesting level d, the innermost open one, with its message
\* pending and the depth still d; the pop that handler makes brings the depth
\* to d - 1, the depth at which that region was entered; so the next throw
\* reaches the handler of the region one level further out.
C14_UnwindsOneRegion ==
    /\ [][Did("throw")' /\ last'.depth > 0 /\ violations' = <<>> =>
             /\ control' = "handler" /\ landed' = last'.depth
             /\ __darija_handler_idx' = last'.depth
             /\ heap'[__darija_current_exception'] = last'.msg]_vars
    /\ [][Did("pop")' /\ control = "handler" /\ violations' = <<>> =>
             /\ __darija_handler_idx' = landed - 1
             /\ nest' = landed - 1
             /\ control' = "return"]_vars
    /\ [][Did("push")' /\ control' = "return" /\ violations' = <<>> =>
             nest' = last'.depth + 1]_vars

\* region 2, entered inside region 1, has caught "x" and has been left; "y",
\* thrown next, is pending in the handler of region 1
C14_Witness ==
    /\ Did("throw") /\ last.msg = "y" /\ last.depth = 1
    /\ control = "handler" /\ landed = 1
    /\ heap = <<"x", "y">> /\ __darija_current_exception = 2
    /\ __darija_handler_idx = 1
    /\ __darija_jmp_buf[0] = 1 /\ __darija_jmp_buf[1] = 2
    /\ violations = <<>>

----------------------------------------------------------------------------
(* Standard output *)

\* what a step has appended to standard output, less its last character
Line == SubSeq(stdout', Len(stdout) + 1, Len(stdout') - 1)

\* C12: tba3_str(s) appends s and a newline to standard output when s is not
\* null, and the text "null" and a newline when s is the null pointer;
\* tba3(v) appends the decimal representation of v (the text that reads back
\* as v, with no padding and no plus sign) and a newline; neither changes the
\* handler depth or the pending exception, and both return to the caller.
C12_Prints ==
    /\ [][Did("tba3_str")' =>
            /\ stdout' = stdout \o Line \o <<"\n">>
            /\ Line = IF last'.id = NULL THEN <<"n", "u", "l", "l">>
                                         ELSE StrTab[last'.id]]_vars
    /\ [][Did("tba3")' =>
            /\ stdout' = stdout \o Line \o <<"\n">>
            /\ scanf_d(Line) = [n |-> 1, value |-> last'.id, rest |-> <<>>]
            /\ Head(Line) \in DigitSet \cup {"-"}
            /\ last'.id = 42 => Line = <<"4", "2">>]_vars
    /\ [][Did("tba3_str")' \/ Did("tba3")' =>
            /\ status' = "running" /\ control' = "return"
            /\ UNCHANGED <<__darija_handler_idx, __darija_current_exception,
                           heap, stderr>>]_vars

\* "42" and then the null pointer have been printed, inside a try region and
\* with an exception pending
C12_Witness ==
    /\ Did("tba3_str") /\ last.id = NULL
    /\ stdout = <<"4", "2", "\n", "n", "u", "l", "l", "\n">>
    /\ status = "running"
    /\ __darija_handler_idx > 0
    /\ __darija_current_exception # NULL

----------------------------------------------------------------------------
(* The pending exception *)

\* the step is a throw made at depth > 0
CaughtThrow == Did("throw")' /\ last'.depth > 0

\* C15: the pending exception is NULL until the first caught throw, changes
\* only in a throw made at depth > 0, which makes it a copy of the thrown
\* message, and never becomes NULL again; pushes, pops, reads of it and the
\* I/O primitives leave it and the text it points to unchanged, so it is the
\* message of the most recent caught throw.
C15_PendingOnlySetByThrow ==
    /\ [](throws = 0 => __darija_current_exception = NULL)
    /\ [][CaughtThrow => /\ __darija_current_exception' # NULL
                         /\ heap'[__darija_current_exception'] = last'.msg]_vars
    /\ [][~CaughtThrow => UNCHANGED <<__darija_current_exception, heap>>]_vars
    /\ [][\A a \in DOMAIN heap : heap'[a] = heap[a]]_vars
    /\ [][__darija_current_exception # NULL => __darija_current_exception' # NULL]_vars
    /\ [][Did("read")' => last'.id = __darija_current_exception]_vars

\* the caller reads the pending exception, "y", after two caught throws, two
\* pops and a print
C15_Witness ==
    /\ Did("read") /\ last.id = __darija_current_exception
    /\ heap = <<"x", "y">> /\ __darija_current_exception = 2
    /\ stdout # <<>>
    /\ __darija_handler_idx = 0

\* the message copies allocated and not released
Live == DOMAIN heap \ freed

\* C16: every throw made at depth > 0 allocates a new copy of its message and
\* releases nothing, the message pending before included: the number of live
\* message copies equals the number of caught throws made so far and never
\* decreases.
C16_ThrowLeaksPrevious ==
    /\ [](Cardinality(Live) = throws)
    /\ [][CaughtThrow =>
             /\ __darija_current_exception' \notin DOMAIN heap
             /\ Live' = Live \cup {__darija_current_exception'}
             /\ __darija_current_exception # NULL =>
                    __darija_current_exception \in Live']_vars
    /\ [][Live \subseteq Live']_vars

\* two throws of the same message have been caught: two copies are live
C16_Witness ==
    /\ Did("throw") /\ throws = 2
    /\ heap = <<"x", "x">> /\ Live = {1, 2}
    /\ __darija_current_exception = 2

\* C19: a throw made at depth 0 does not store its message: when the process
\* ends the pending exception and the depth are what they were just before
\* the call, and no copy of the message has been allocated.
C19_UncaughtThrowStoresNothing ==
    /\ [][Did("throw")' /\ last'.depth = 0 =>
             /\ status' = "exited"
             /\ UNCHANGED <<__darija_current_exception, __darija_handler_idx,
                            heap, freed>>]_vars
    /\ []((Did("throw") /\ status = "exited") =>
             /\ __darija_handler_idx = 0
             /\ Len(heap) = throws
             /\ __darija_current_exception = Len(heap))

\* the process has ended on an uncaught throw of "y" while "x", caught
\* earlier, is still the pending exception
C19_Witness ==
    /\ Did("throw") /\ last.msg = "y" /\ last.depth = 0
    /\ status = "exited"
    /\ heap = <<"x">> /\ __darija_current_exception = 1
    /\ __darija_handler_idx = 0

----------------------------------------------------------------------------
(* Array bounds *)

\* C18: whenever a throw jumps, at depth > 0, the index it uses into
\* __darija_jmp_buf is depth - 1 and lies in 0..MAX_EXCEPTION_HANDLERS-1,
\* whatever pushes, pops and throws came before: the array is never indexed
\* out of bounds.
C18_ThrowIndexInBounds ==
    /\ [](DOMAIN __darija_jmp_buf = 0..(MAX_EXCEPTION_HANDLERS - 1))
    /\ [][Did("throw")' /\ __darija_handler_idx > 0 =>
             /\ throw_index = last'.depth - 1
             /\ throw_index \in DOMAIN __darija_jmp_buf]_vars

\* a throw has jumped through the last slot of the array
C18_Witness ==
    /\ Did("throw") /\ control = "handler"
    /\ throw_index = MAX_EXCEPTION_HANDLERS - 1
    /\ landed = MAX_EXCEPTION_HANDLERS

----------------------------------------------------------------------------
(* Two threads *)

\* no thread but t has called the runtime
Alone(t) == \A u \in Threads \ {t} : ~threads[u].called

\* C17: the handler stack and the pending exception are process-wide and
\* unprotected.  A throw jumps through the top slot of the one shared stack,
\* whichever thread filled it, so when two threads call the runtime a throw
\* of one can land on a resumption point the other registered, and a thread
\* in its handler can find the other thread's message pending; as long as a
\* single thread has called the runtime, every throw that reaches a handler
\* reaches one that the throwing thread registered itself, and the message
\* pending in its handler is its own.
C17_SharedAcrossThreads ==
    /\ [][Did("throw")' /\ control' = "handler" =>
             landed' = Slot(last'.depth - 1)]_vars
    /\ [][Did("throw")' /\ control' = "handler" /\ Alone(last'.id) =>
             landed' = last'.id]_vars
    /\ [](\A t \in Threads :
             threads[t].pc = "astray" => \E u \in Threads \ {t} : threads[u].called)
    /\ [](\A t \in Threads :
             threads[t].pc = "handler" /\ Alone(t) =>
                Did("throw") /\ last.id = t
                /\ heap[__darija_current_exception] = last.msg)

\* a throw of thread 1, which has no try-region open, has landed on the
\* resumption point thread 2 registered, while thread 2 is inside its region
C17_Witness ==
    /\ Did("throw") /\ last.id = 1 /\ control = "handler"
    /\ landed = 2
    /\ threads[1].pc = "astray" /\ threads[1].nest = 0
    /\ threads[2].pc = "body" /\ threads[2].nest = 1

====
